---- MODULE Spec2Model ----
(***************************************************************************)
(* Model of create_table.py: a JSON array of flat records is read, a table *)
(* is dropped and recreated from the first record's keys, and the records  *)
(* are inserted one statement per record.                                  *)
(*                                                                         *)
(* Strings whose characters matter (the JSON keys, which the program       *)
(* lower-cases and the database folds) are sequences of one-character      *)
(* strings.  A JSON value is a record [kind, v]: kind is the Python class  *)
(* json.load gives it, v its text.  A JSON object is a sequence of         *)
(* <<key, value>> pairs with distinct keys: a dict keeps insertion order.  *)
(***************************************************************************)
EXTENDS Integers, Sequences, FiniteSets, TLC

VARIABLES
    json_data,           \* the parsed content of json_file
    db,                  \* the committed state of the relation table_name
    calls,               \* the top-level calls the process makes, in order
    call,                \* index in calls of the running call
    pc,                  \* position inside the running call
    first_json_entry,    \* local of both operations
    headers,             \* local of both operations
    columns_with_types,  \* local of create_table_from_json
    create_sql,          \* local of create_table_from_json
    placeholders,        \* local of insert_data_from_json
    insert_sql,          \* local of insert_data_from_json
    entry_index,         \* insert loop: index of the next entry of json_data
    connection,          \* "none", "open" or "closed" (connection.close() ran)
    cursor,              \* "none", "open" or "closed" (cursor.close() ran)
    tx,                  \* the relation as the open connection's transaction sees it
    db_at_connect,       \* history: db when the running call connected
    trace                \* history: what the process did, in order

vars == <<json_data, db, calls, call, pc, first_json_entry, headers,
          columns_with_types, create_sql, placeholders, insert_sql,
          entry_index, connection, cursor, tx, db_at_connect, trace>>

locals == <<first_json_entry, headers, columns_with_types, create_sql,
            placeholders, insert_sql, entry_index>>

-----------------------------------------------------------------------------
(* Bounds of the inputs.                                                   *)

MaxRecords == 2   \* records in json_data
MaxKeys == 2      \* keys in one record

-----------------------------------------------------------------------------
(* Characters and str.lower().                                             *)

ToLower ==
    [c \in {"A","B","C","D","E","F","G","H","I","J","K","L","M","N","O","P",
            "Q","R","S","T","U","V","W","X","Y","Z"} |->
        CASE c = "A" -> "a" [] c = "B" -> "b" [] c = "C" -> "c" [] c = "D" -> "d"
          [] c = "E" -> "e" [] c = "F" -> "f" [] c = "G" -> "g" [] c = "H" -> "h"
          [] c = "I" -> "i" [] c = "J" -> "j" [] c = "K" -> "k" [] c = "L" -> "l"
          [] c = "M" -> "m" [] c = "N" -> "n" [] c = "O" -> "o" [] c = "P" -> "p"
          [] c = "Q" -> "q" [] c = "R" -> "r" [] c = "S" -> "s" [] c = "T" -> "t"
          [] c = "U" -> "u" [] c = "V" -> "v" [] c = "W" -> "w" [] c = "X" -> "x"
          [] c = "Y" -> "y" [] c = "Z" -> "z"]

\* str.lower(): every cased character is replaced by its lower-case form.
lower(s) == [k \in 1..Len(s) |-> IF s[k] \in DOMAIN ToLower THEN ToLower[s[k]] ELSE s[k]]

GEOMETRY_HEADERS == { <<"g","e","o","m">>,
                      <<"g","e","o","m","e","t","r","y">>,
                      <<"w","k","t">> }

table_name == <<"G","E","O","_","T","A","B","L","E">>

\* The name of the surrogate key column, "id" of "id BIGSERIAL PRIMARY KEY".
id == <<"i","d">>

-----------------------------------------------------------------------------
(* Python values as json.load builds them.                                 *)

\* The classes isinstance() accepts for a value of each class: bool is a
\* subclass of int.
Classes(kind) == IF kind = "bool" THEN {"bool", "int"} ELSE {kind}

isinstance(value, class) == class \in Classes(value.kind)

\* Variant: the int test placed before the bool test.
decide_sql_type_int_first(header, value) ==
    IF lower(header) \in GEOMETRY_HEADERS THEN "GEOMETRY(GEOMETRY, 3857)"
    ELSE IF isinstance(value, "int") THEN "INTEGER"
    ELSE IF isinstance(value, "bool") THEN "BOOLEAN"
    ELSE IF isinstance(value, "float") THEN "DOUBLE PRECISION"
    ELSE IF isinstance(value, "dict") THEN "JSONB"
    ELSE "TEXT"

decide_sql_type(header, value) ==
    IF lower(header) \in GEOMETRY_HEADERS THEN "GEOMETRY(GEOMETRY, 3857)"
    ELSE IF isinstance(value, "bool") THEN "BOOLEAN"
    ELSE IF isinstance(value, "int") THEN "INTEGER"
    ELSE IF isinstance(value, "float") THEN "DOUBLE PRECISION"
    ELSE IF isinstance(value, "dict") THEN "JSONB"
    ELSE "TEXT"

\* dict.keys() of a JSON object, in insertion order.
keys(entry) == [k \in 1..Len(entry) |-> entry[k][1]]

HasKey(entry, header) == \E k \in 1..Len(entry) : entry[k][1] = header

\* entry[header]; the caller checks HasKey first (a KeyError otherwise).
Lookup(entry, header) ==
    entry[CHOOSE k \in 1..Len(entry) : entry[k][1] = header][2]

-----------------------------------------------------------------------------
(* SQL statements.  The text of a statement is its fixed words (op) and    *)
(* the pieces the f-string interpolates into it, in order: the table name, *)
(* the comma-joined column list and the comma-joined VALUES list.          *)

NoSql == [op |-> "", table |-> <<>>, columns |-> <<>>, values |-> <<>>]

PlainPlaceholder == "%s"
GeomPlaceholder == "ST_Transform(ST_GeomFromText(%s, 3857), 3857)"

\* columns_with_types: "id BIGSERIAL PRIMARY KEY", then f"{header} {sql_type}"
\* for each header; an element is the pair <<header, sql_type>>.
\* Variant: the surrogate key left out.
ColumnsWithTypes_no_id(entry) ==
    [k \in 1..Len(entry) |-> <<entry[k][1], decide_sql_type(entry[k][1], entry[k][2])>>]

ColumnsWithTypes(entry) ==
    << <<id, "BIGSERIAL PRIMARY KEY">> >> \o
    [k \in 1..Len(keys(entry)) |->
        <<keys(entry)[k],
          decide_sql_type(keys(entry)[k], Lookup(entry, keys(entry)[k]))>>]

CreateSql(table, columns) ==
    [op |-> "CREATE TABLE IF NOT EXISTS", table |-> table,
     columns |-> columns, values |-> <<>>]

DropSql(table) ==
    [op |-> "DROP TABLE IF EXISTS", table |-> table, columns |-> <<>>, values |-> <<>>]

\* CREATE INDEX IF NOT EXISTS idx_{table}_{column} ON {table} USING GIST({column})
IndexSql(table, column) ==
    [op |-> "CREATE INDEX IF NOT EXISTS", table |-> table,
     columns |-> <<column>>, values |-> <<>>]

IsGeometryHeader(header) == lower(header) \in GEOMETRY_HEADERS

\* any(header.lower() in GEOMETRY_HEADERS for header in first_json_entry.keys())
AnyGeometryHeader(entry) == \E k \in 1..Len(entry) : IsGeometryHeader(keys(entry)[k])

\* Variant: the last alias key instead of the first.
SpatialColumn_last(entry) ==
    keys(entry)[CHOOSE k \in 1..Len(entry) :
                  /\ IsGeometryHeader(keys(entry)[k])
                  /\ \A j \in (k+1)..Len(entry) : ~IsGeometryHeader(keys(entry)[j])]

\* next(header for header in first_json_entry.keys() if header.lower() in ...)
SpatialColumn(entry) ==
    keys(entry)[CHOOSE k \in 1..Len(entry) :
                  /\ IsGeometryHeader(keys(entry)[k])
                  /\ \A j \in 1..(k-1) : ~IsGeometryHeader(keys(entry)[j])]

\* The loop that fills placeholders, one per key of the first entry.
Placeholders(entry) ==
    [k \in 1..Len(entry) |->
        IF IsGeometryHeader(keys(entry)[k]) THEN GeomPlaceholder ELSE PlainPlaceholder]

\* Variant: the first entry's values formatted into the text.
InsertSql_interpolated(table, entry) ==
    [op |-> "INSERT INTO", table |-> table, columns |-> keys(entry),
     values |-> [k \in 1..Len(entry) |-> entry[k][2].v]]

InsertSql(table, entry) ==
    [op |-> "INSERT INTO", table |-> table, columns |-> keys(entry),
     values |-> Placeholders(entry)]

\* tuple(entry[header] for header in headers), when no key is missing.
DataTuple(entry, hdrs) == [k \in 1..Len(hdrs) |-> Lookup(entry, hdrs[k])]

MissingKey(entry, hdrs) == \E k \in 1..Len(hdrs) : ~HasKey(entry, hdrs[k])

-----------------------------------------------------------------------------
(* The database: one relation, the one table_name names.  A statement      *)
(* yields [ok, table]: whether the server accepted it and the relation as  *)
(* the transaction sees it afterwards.                                     *)

NoTable == [exists |-> FALSE, cols |-> <<>>, rows |-> <<>>, indexes |-> {}]

SqlNull == [kind |-> "NoneType", v |-> "null"]

\* An unquoted identifier is folded to lower case by the server.
Fold(name) == lower(name)

Distinct(s) == \A a, b \in 1..Len(s) : s[a] = s[b] => a = b

ExecDrop(t) == [ok |-> TRUE, table |-> NoTable]

\* CREATE TABLE IF NOT EXISTS: a relation that exists is left as it is; a
\* column name given twice (after folding) is an error.
ExecCreate(t, stmt) ==
    LET names == [k \in 1..Len(stmt.columns) |-> Fold(stmt.columns[k][1])]
    IN IF t.exists THEN [ok |-> TRUE, table |-> t]
       ELSE IF ~Distinct(names) THEN [ok |-> FALSE, table |-> t]
       ELSE [ok |-> TRUE,
             table |-> [exists |-> TRUE,
                        cols |-> [k \in 1..Len(names) |->
                                    [name |-> names[k], type |-> stmt.columns[k][2]]],
                        rows |-> <<>>,
                        indexes |-> {}]]

ExecIndex(t, stmt) ==
    [ok |-> TRUE,
     table |-> [t EXCEPT !.indexes = @ \cup {Fold(stmt.columns[1])}]]

ColumnType(t, name) == t.cols[CHOOSE k \in 1..Len(t.cols) : t.cols[k].name = name].type

HasColumn(t, name) == \E k \in 1..Len(t.cols) : t.cols[k].name = name

\* Whether the server takes `value`, bound to `placeholder`, for a column of
\* `type`, for the values the inputs hold (int and str).  An int has no
\* conversion to geometry or to boolean and is no argument of
\* ST_GeomFromText; the str of the inputs is no number; a str bound to a
\* plain placeholder of a geometry column carries no SRID.  A VALUES item
\* that is no placeholder leaves the parameter without a marker, and
\* psycopg2 refuses the call.
Accepts(type, placeholder, value) ==
    IF placeholder = GeomPlaceholder
    THEN value.kind = "str" /\ type = "GEOMETRY(GEOMETRY, 3857)"
    ELSE IF placeholder = PlainPlaceholder
    THEN \/ type \in {"INTEGER", "DOUBLE PRECISION", "BIGSERIAL PRIMARY KEY"}
            /\ value.kind = "int"
         \/ type = "TEXT" /\ value.kind \in {"int", "str"}
    ELSE FALSE

\* The value the column holds afterwards.
Stored(type, placeholder, value) ==
    CASE type = "GEOMETRY(GEOMETRY, 3857)" -> [kind |-> "geometry", v |-> value.v]
      [] type = "TEXT" -> [kind |-> "str", v |-> value.v]
      [] OTHER -> value

\* INSERT INTO table (columns) VALUES (values) with `data` bound to the %s.
\* A row holds the columns after the surrogate key, in the relation's order.
ExecInsert(t, stmt, data) ==
    LET names == [k \in 1..Len(stmt.columns) |-> Fold(stmt.columns[k])]
        Pos(name) == CHOOSE k \in 1..Len(names) : names[k] = name
        ok == /\ t.exists
              /\ Len(names) > 0
              /\ Distinct(names)
              /\ \A k \in 1..Len(names) : HasColumn(t, names[k])
              /\ \A k \in 1..Len(names) :
                    Accepts(ColumnType(t, names[k]), stmt.values[k], data[k])
        row == [c \in 1..(Len(t.cols) - 1) |->
                  LET col == t.cols[c + 1]
                  IN IF \E k \in 1..Len(names) : names[k] = col.name
                     THEN Stored(col.type, stmt.values[Pos(col.name)], data[Pos(col.name)])
                     ELSE SqlNull]
    IN IF ok THEN [ok |-> TRUE, table |-> [t EXCEPT !.rows = Append(@, row)]]
       ELSE [ok |-> FALSE, table |-> t]

-----------------------------------------------------------------------------
(* The inputs.                                                             *)

name == <<"n","a","m","e">>
Name == <<"N","a","m","e">>
wkt  == <<"w","k","t">>
Geom == <<"G","e","o","m">>

Headers == {name, Name, wkt, Geom}

Int3 == [kind |-> "int", v |-> "3"]
WktPoint == [kind |-> "str", v |-> "POINT(1 2)"]

Values == {Int3, WktPoint}

Injective(s) == \A a, b \in DOMAIN s : s[a] = s[b] => a = b

KeySeqs == UNION { {ks \in [1..n -> Headers] : Injective(ks)} : n \in 0..MaxKeys }

\* The JSON objects that can stand first in the file.
FirstEntries ==
    UNION { { [k \in 1..Len(ks) |-> <<ks[k], vs[k]>>] : vs \in [1..Len(ks) -> Values] }
            : ks \in KeySeqs }

RemoveAt(s, p) == [k \in 1..(Len(s) - 1) |-> IF k < p THEN s[k] ELSE s[k + 1]]

\* The objects that follow it: the same keys, or one key missing, or one
\* value of another shape.
Variants(e) ==
    {e} \cup { RemoveAt(e, p) : p \in 1..Len(e) }
        \cup { [e EXCEPT ![p] = <<e[p][1], v>>] : p \in 1..Len(e), v \in Values }

Datasets ==
    {<<>>} \cup
    UNION { UNION { { <<e>> \o rest : rest \in [1..n -> Variants(e)] }
                    : n \in 0..(MaxRecords - 1) }
            : e \in FirstEntries }

\* What table_name names before the process starts: nothing, or the table an
\* earlier run built from [{"name": "old"}] and filled.
OldTable ==
    [exists |-> TRUE,
     cols |-> << [name |-> id, type |-> "BIGSERIAL PRIMARY KEY"],
                 [name |-> name, type |-> "TEXT"] >>,
     rows |-> << << [kind |-> "str", v |-> "old"] >> >>,
     indexes |-> {}]

PriorTables == {NoTable, OldTable}

\* __main__ calls create_table_from_json, then insert_data_from_json; a
\* caller that rebuilds calls create_table_from_json twice; one that only
\* loads calls insert_data_from_json.
Main == <<"create_table_from_json", "insert_data_from_json">>
Rebuild == <<"create_table_from_json", "create_table_from_json">>
LoadOnly == <<"insert_data_from_json">>

Scripts == {Main, Rebuild, LoadOnly}

-----------------------------------------------------------------------------
(* The trace.                                                              *)

Event(kind, sql, params, msg) ==
    [call |-> call, ev |-> kind, sql |-> sql, params |-> params, msg |-> msg]

Log(kind, sql, params, msg) == trace' = Append(trace, Event(kind, sql, params, msg))

running == IF call \in DOMAIN calls THEN calls[call] ELSE "exit"

\* An exception nothing catches: the process ends with a traceback.
Raise(exception) ==
    /\ pc' = "raised"
    /\ Log("raise", NoSql, <<>>, exception)

-----------------------------------------------------------------------------
(* State after the process starts.                                         *)

InitLocals ==
    /\ first_json_entry = <<>>
    /\ headers = <<>>
    /\ columns_with_types = <<>>
    /\ create_sql = NoSql
    /\ placeholders = <<>>
    /\ insert_sql = NoSql
    /\ entry_index = 1

InitProcess ==
    /\ call = 1
    /\ pc = "begin"
    /\ InitLocals
    /\ connection = "none"
    /\ cursor = "none"
    /\ tx = db
    /\ db_at_connect = db
    /\ trace = <<>>

Init ==
    /\ json_data \in Datasets
    /\ db \in PriorTables
    /\ calls \in Scripts
    /\ InitProcess

-----------------------------------------------------------------------------
(* create_table_from_json                                                  *)

\* Variant: an empty object stands in for the missing first entry.
FirstEntry_or_empty(data) ==
    IF Len(data) = 0 THEN [ok |-> TRUE, entry |-> <<>>]
    ELSE [ok |-> TRUE, entry |-> data[1]]

\* json_data[0]: an IndexError on the empty list.
FirstEntry(data) ==
    IF Len(data) = 0 THEN [ok |-> FALSE, entry |-> <<>>]
    ELSE [ok |-> TRUE, entry |-> data[1]]

\* Lines 41-62: read the file, take the first entry, build create_sql.
CT_Prepare ==
    /\ running = "create_table_from_json"
    /\ pc = "begin"
    /\ IF FirstEntry(json_data).ok
       THEN /\ first_json_entry' = FirstEntry(json_data).entry
            /\ headers' = keys(first_json_entry')
            /\ columns_with_types' = ColumnsWithTypes(first_json_entry')
            /\ create_sql' = CreateSql(table_name, columns_with_types')
            /\ pc' = "connect"
            /\ UNCHANGED trace
       ELSE /\ Raise("IndexError")
            /\ UNCHANGED <<first_json_entry, headers, columns_with_types, create_sql>>
    /\ UNCHANGED <<json_data, db, calls, call, placeholders, insert_sql,
                   entry_index, connection, cursor, tx, db_at_connect>>

\* connect_to_pg() and connection.cursor(): a transaction starts with the
\* first statement and sees the committed relation.
Connect(next) ==
    /\ pc = "connect"
    /\ connection' = "open"
    /\ cursor' = "open"
    /\ tx' = db
    /\ db_at_connect' = db
    /\ pc' = next
    /\ Log("connect", NoSql, <<>>, "")
    /\ UNCHANGED <<json_data, db, calls, call, locals>>

\* psycopg2.connect() raises when the server is unreachable or refuses.
ConnectFails ==
    /\ pc = "connect"
    /\ Raise("OperationalError")
    /\ UNCHANGED <<json_data, db, calls, call, locals, connection, cursor, tx,
                   db_at_connect>>

CT_Connect ==
    /\ running = "create_table_from_json"
    /\ Connect("drop")

\* Variant: no drop before the create.
CT_Drop_skipped ==
    /\ running = "create_table_from_json"
    /\ pc = "drop"
    /\ pc' = "create"
    /\ UNCHANGED <<json_data, db, calls, call, locals, connection, cursor, tx,
                   db_at_connect, trace>>

\* Line 69.
CT_Drop ==
    /\ running = "create_table_from_json"
    /\ pc = "drop"
    /\ tx' = ExecDrop(tx).table
    /\ pc' = "create"
    /\ Log("execute", DropSql(table_name), <<>>, "")
    /\ UNCHANGED <<json_data, db, calls, call, locals, connection, cursor,
                   db_at_connect>>

\* Line 70.  A statement the server rejects raises out of cursor.execute.
CT_Create ==
    /\ running = "create_table_from_json"
    /\ pc = "create"
    /\ LET r == ExecCreate(tx, create_sql)
       IN /\ tx' = r.table
          /\ trace' = IF r.ok
                      THEN Append(trace, Event("execute", create_sql, <<>>, ""))
                      ELSE Append(Append(trace, Event("execute", create_sql, <<>>, "")),
                                  Event("raise", NoSql, <<>>, "ProgrammingError"))
          /\ pc' = IF r.ok THEN "branch" ELSE "raised"
    /\ UNCHANGED <<json_data, db, calls, call, locals, connection, cursor,
                   db_at_connect>>

\* Lines 73-79: the branch taken when a key is a geometry header.
CT_Index ==
    /\ running = "create_table_from_json"
    /\ pc = "branch"
    /\ AnyGeometryHeader(first_json_entry)
    /\ LET stmt == IndexSql(table_name, SpatialColumn(first_json_entry))
       IN /\ tx' = ExecIndex(tx, stmt).table
          /\ Log("execute", stmt, <<>>, "")
    /\ pc' = "commit"
    /\ UNCHANGED <<json_data, db, calls, call, locals, connection, cursor,
                   db_at_connect>>

\* Line 82.
CT_Commit ==
    /\ running = "create_table_from_json"
    /\ pc = "commit"
    /\ db' = tx
    /\ pc' = "close"
    /\ Log("commit", NoSql, <<>>, "")
    /\ UNCHANGED <<json_data, calls, call, locals, connection, cursor, tx,
                   db_at_connect>>

\* cursor.close() and connection.close().
Close ==
    /\ pc = "close"
    /\ cursor' = "closed"
    /\ connection' = "closed"
    /\ tx' = db
    /\ pc' = "print"
    /\ Log("close", NoSql, <<>>, "")
    /\ UNCHANGED <<json_data, db, calls, call, locals, db_at_connect>>

\* Lines 83-84.
CT_Close ==
    /\ running = "create_table_from_json"
    /\ Close

\* Line 87.
CT_PrintSpatial ==
    /\ running = "create_table_from_json"
    /\ pc = "print"
    /\ pc' = "return"
    /\ Log("print", NoSql, <<>>, "created successfully with spatial support")
    /\ UNCHANGED <<json_data, db, calls, call, locals, connection, cursor, tx,
                   db_at_connect>>

\* Lines 88-89: the else branch prints and does nothing else.
CT_PrintPlain ==
    /\ running = "create_table_from_json"
    /\ pc = "branch"
    /\ ~AnyGeometryHeader(first_json_entry)
    /\ pc' = "return"
    /\ Log("print", NoSql, <<>>, "created successfully without spatial support")
    /\ UNCHANGED <<json_data, db, calls, call, locals, connection, cursor, tx,
                   db_at_connect>>

\* The function returns and its frame goes: a connection the frame still
\* holds open is deallocated, and the server rolls its transaction back.
Return ==
    /\ pc = "return"
    /\ call' = call + 1
    /\ pc' = IF call + 1 \in DOMAIN calls THEN "begin" ELSE "exit"
    /\ first_json_entry' = <<>>
    /\ headers' = <<>>
    /\ columns_with_types' = <<>>
    /\ create_sql' = NoSql
    /\ placeholders' = <<>>
    /\ insert_sql' = NoSql
    /\ entry_index' = 1
    /\ connection' = "none"
    /\ cursor' = "none"
    /\ tx' = db
    /\ trace' = IF connection = "open"
                THEN Append(trace, Event("dealloc", NoSql, <<>>, ""))
                ELSE trace
    /\ UNCHANGED <<json_data, db, calls, db_at_connect>>

-----------------------------------------------------------------------------
(* insert_data_from_json                                                   *)

\* Lines 94-116: read the file, take the first entry, build insert_sql.
INS_Prepare ==
    /\ running = "insert_data_from_json"
    /\ pc = "begin"
    /\ IF FirstEntry(json_data).ok
       THEN /\ first_json_entry' = FirstEntry(json_data).entry
            /\ placeholders' = Placeholders(first_json_entry')
            /\ headers' = keys(first_json_entry')
            /\ insert_sql' = InsertSql(table_name, first_json_entry')
            /\ pc' = "connect"
            /\ UNCHANGED trace
       ELSE /\ Raise("IndexError")
            /\ UNCHANGED <<first_json_entry, headers, placeholders, insert_sql>>
    /\ UNCHANGED <<json_data, db, calls, call, columns_with_types, create_sql,
                   entry_index, connection, cursor, tx, db_at_connect>>

INS_Connect ==
    /\ running = "insert_data_from_json"
    /\ Connect("loop")

\* Variant: a connection in autocommit mode.
CommittedAfterExecute_autocommit(committed, seen) == seen

\* The connection is in psycopg2's default mode: a statement that ran is not
\* committed until connection.commit().
CommittedAfterExecute(committed, seen) == committed

\* Lines 123-125, one iteration: entry[header] raises KeyError on a missing
\* key, before the statement is sent; a statement the server rejects raises
\* out of cursor.execute.
INS_Execute ==
    /\ running = "insert_data_from_json"
    /\ pc = "loop"
    /\ entry_index <= Len(json_data)
    /\ LET entry == json_data[entry_index]
       IN IF MissingKey(entry, headers)
          THEN /\ Raise("KeyError")
               /\ UNCHANGED <<tx, db, entry_index>>
          ELSE LET data == DataTuple(entry, headers)
                   r == ExecInsert(tx, insert_sql, data)
               IN /\ tx' = r.table
                  /\ db' = CommittedAfterExecute(db, tx')
                  /\ IF r.ok
                     THEN /\ entry_index' = entry_index + 1
                          /\ pc' = "loop"
                          /\ Log("execute", insert_sql, data, "")
                     ELSE /\ UNCHANGED entry_index
                          /\ pc' = "raised"
                          /\ trace' = Append(Append(trace,
                                          Event("execute", insert_sql, data, "")),
                                          Event("raise", NoSql, <<>>, "DatabaseError"))
    /\ UNCHANGED <<json_data, calls, call, first_json_entry, headers,
                   columns_with_types, create_sql, placeholders, insert_sql,
                   connection, cursor, db_at_connect>>

\* Line 128, after the loop.
INS_Commit ==
    /\ running = "insert_data_from_json"
    /\ pc = "loop"
    /\ entry_index > Len(json_data)
    /\ db' = tx
    /\ pc' = "close"
    /\ Log("commit", NoSql, <<>>, "")
    /\ UNCHANGED <<json_data, calls, call, locals, connection, cursor, tx,
                   db_at_connect>>

\* Lines 129-130.
INS_Close ==
    /\ running = "insert_data_from_json"
    /\ Close

\* Line 133.
INS_Print ==
    /\ running = "insert_data_from_json"
    /\ pc = "print"
    /\ pc' = "return"
    /\ Log("print", NoSql, <<>>, "was filled with data successfully")
    /\ UNCHANGED <<json_data, db, calls, call, locals, connection, cursor, tx,
                   db_at_connect>>

-----------------------------------------------------------------------------

Next ==
    \/ CT_Prepare
    \/ CT_Connect
    \/ ConnectFails
    \/ CT_Drop
    \/ CT_Create
    \/ CT_Index
    \/ CT_Commit
    \/ CT_Close
    \/ CT_PrintSpatial
    \/ CT_PrintPlain
    \/ INS_Prepare
    \/ INS_Connect
    \/ INS_Execute
    \/ INS_Commit
    \/ INS_Close
    \/ INS_Print
    \/ Return

Spec == Init /\ [][Next]_vars

-----------------------------------------------------------------------------
(* decide_sql_type on its own: the file holds one object with one key, and *)
(* the key and the value range over every spelling and every JSON shape.   *)

geom == <<"g","e","o","m">>
GEOM == <<"G","E","O","M">>
geometry == <<"g","e","o","m","e","t","r","y">>
GEOMETRY == <<"G","E","O","M","E","T","R","Y">>
WKT == <<"W","K","T">>
geo == <<"g","e","o">>
the_geom == <<"t","h","e","_","g","e","o","m">>

DecideHeaders == {geom, Geom, GEOM, geometry, GEOMETRY, wkt, WKT, name, Name, geo, the_geom}

DecideValues ==
    { [kind |-> "bool", v |-> "true"], [kind |-> "bool", v |-> "false"],
      [kind |-> "int", v |-> "0"], [kind |-> "int", v |-> "3"],
      [kind |-> "float", v |-> "1.5"],
      [kind |-> "dict", v |-> "{\"a\": 1}"],
      [kind |-> "str", v |-> "X"], [kind |-> "str", v |-> "POINT(1 2)"],
      [kind |-> "str", v |-> "true"],
      [kind |-> "NoneType", v |-> "null"],
      [kind |-> "list", v |-> "[1]"] }

InitDecide ==
    /\ json_data \in { << << <<h, v>> >> >> : h \in DecideHeaders, v \in DecideValues }
    /\ db = NoTable
    /\ calls = <<"create_table_from_json">>
    /\ InitProcess

NextDecide == CT_Prepare

SpecDecide == InitDecide /\ [][NextDecide]_vars

-----------------------------------------------------------------------------
(* Reading the trace.                                                      *)

\* Positions of the events of one kind that call n made.
Events(n, kind) == {i \in DOMAIN trace : trace[i].call = n /\ trace[i].ev = kind}

\* Positions of the statements with the given words that call n executed.
Executed(n, op) == {i \in Events(n, "execute") : trace[i].sql.op = op}

AllExecuted(op) ==
    {i \in DOMAIN trace : trace[i].ev = "execute" /\ trace[i].sql.op = op}

\* The k-th INSERT of its call is at position i.
Ordinal(i) == Cardinality({j \in Executed(trace[i].call, "INSERT INTO") : j <= i})

\* The key spellings of the inputs that are geometry aliases, written out.
AliasHeaders == {wkt, Geom}

Connected == Events(call, "connect") # {}

-----------------------------------------------------------------------------
\* C1: every success report of create_table_from_json comes after a commit
\* on its connection that follows its create-table statement, on the
\* geometry branch and on the branch without a geometry field.
C1_CommitBeforeReport ==
    \A i \in DOMAIN trace :
        (trace[i].ev = "print" /\ calls[trace[i].call] = "create_table_from_json")
        => \E j \in 1..(i - 1) :
              /\ trace[j].call = trace[i].call
              /\ trace[j].ev = "commit"
              /\ \E k \in 1..(j - 1) :
                    /\ trace[k].call = trace[i].call
                    /\ trace[k].ev = "execute"
                    /\ trace[k].sql.op = "CREATE TABLE IF NOT EXISTS"

\* C2: an operation that has connected and has come to its end, by a return
\* or by an exception, has closed its cursor and its connection.
C2_ReleasedOnEveryExit ==
    (pc \in {"return", "raised"} /\ Connected)
    => (connection = "closed" /\ cursor = "closed")

\* C3: the create-table statement lists the surrogate key and then the
\* first record's keys in their order; the insert statement lists the first
\* record's keys in their order and no surrogate key, has one placeholder
\* per column, and binds for each record its values in that order.
C3_ColumnOrder ==
    /\ \A i \in AllExecuted("CREATE TABLE IF NOT EXISTS") :
          LET cols == trace[i].sql.columns
          IN /\ Len(cols) = Len(json_data[1]) + 1
             /\ cols[1] = <<id, "BIGSERIAL PRIMARY KEY">>
             /\ \A k \in 1..Len(json_data[1]) : cols[k + 1][1] = json_data[1][k][1]
    /\ \A i \in AllExecuted("INSERT INTO") :
          LET cols == trace[i].sql.columns
              record == json_data[Ordinal(i)]
          IN /\ Len(cols) = Len(json_data[1])
             /\ \A k \in 1..Len(cols) : cols[k] = json_data[1][k][1]
             /\ Len(trace[i].sql.values) = Len(cols)
             /\ Len(trace[i].params) = Len(cols)
             /\ \A k \in 1..Len(cols) :
                   \E p \in 1..Len(record) :
                      record[p][1] = cols[k] /\ record[p][2] = trace[i].params[k]

\* A run that has executed the create-table statement and two inserts of two
\* columns each.
C3_Witness ==
    /\ AllExecuted("CREATE TABLE IF NOT EXISTS") # {}
    /\ \E i \in AllExecuted("INSERT INTO") :
          Ordinal(i) = 2 /\ Len(trace[i].sql.columns) = 2

\* The spellings of DecideHeaders that are geometry aliases, written out.
AliasSpellings == {geom, Geom, GEOM, geometry, GEOMETRY, wkt, WKT}

\* C4: decide_sql_type gives the type of the first rule that matches: an
\* alias key in any letter case is geometry whatever the value; else bool is
\* BOOLEAN, int INTEGER, float DOUBLE PRECISION, dict JSONB, and anything
\* else TEXT; two values of one shape get one type.
C4_TypePrecedence ==
    (pc = "connect" /\ Len(columns_with_types) = 2)
    => LET header == first_json_entry[1][1]
           value == first_json_entry[1][2]
           type == columns_with_types[2][2]
       IN /\ columns_with_types[2][1] = header
          /\ type = CASE header \in AliasSpellings -> "GEOMETRY(GEOMETRY, 3857)"
                      [] header \notin AliasSpellings /\ value.kind = "bool" -> "BOOLEAN"
                      [] header \notin AliasSpellings /\ value.kind = "int" -> "INTEGER"
                      [] header \notin AliasSpellings /\ value.kind = "float"
                            -> "DOUBLE PRECISION"
                      [] header \notin AliasSpellings /\ value.kind = "dict" -> "JSONB"
                      [] OTHER -> "TEXT"
          /\ \A other \in DecideValues :
                other.kind = value.kind => decide_sql_type(header, other) = type

\* A boolean under a key that is no alias has been typed BOOLEAN.
C4_Witness ==
    /\ pc = "connect"
    /\ Len(columns_with_types) = 2
    /\ first_json_entry[1][1] = name
    /\ first_json_entry[1][2].kind = "bool"
    /\ columns_with_types[2][2] = "BOOLEAN"

\* C5: on the empty array either operation ends in an exception with no
\* connection acquired and no statement executed, and the table that
\* existed before is as it was.
C5_EmptyDataset ==
    Len(json_data) = 0
    => /\ pc \in {"begin", "raised"}
       /\ call = 1
       /\ pc = "raised" => trace = << Event("raise", NoSql, <<>>, "IndexError") >>
       /\ pc = "begin" => trace = <<>>
       /\ connection = "none"
       /\ cursor = "none"
       /\ db \in PriorTables
       /\ db = db_at_connect
       /\ tx = db

\* insert_data_from_json has failed on the empty array with a table present.
C5_Witness ==
    /\ Len(json_data) = 0
    /\ running = "insert_data_from_json"
    /\ pc = "raised"
    /\ db = OldTable


\* The records of the file all have the first record's keys, and no key is
\* a geometry alias.  The keys are usable as column names (at least one, no
\* two alike to the server) and each record's values have the shapes of the
\* first record's, so that no statement fails for the data's sake.
SameKeysNoGeometry ==
    /\ Len(json_data) >= 1
    /\ Len(json_data[1]) >= 1
    /\ \A a, b \in 1..Len(json_data[1]) :
          Fold(json_data[1][a][1]) = Fold(json_data[1][b][1]) => a = b
    /\ \A r \in 1..Len(json_data) :
          /\ {json_data[r][k][1] : k \in 1..Len(json_data[r])}
                = {json_data[1][k][1] : k \in 1..Len(json_data[1])}
          /\ \A k \in 1..Len(json_data[1]) : \A p \in 1..Len(json_data[r]) :
                json_data[r][p][1] = json_data[1][k][1]
                => json_data[r][p][2].kind = json_data[1][k][2].kind
    /\ \A k \in 1..Len(json_data[1]) : json_data[1][k][1] \notin AliasHeaders

\* The process has ended, and not because the server could not be reached.
Ended ==
    \/ pc = "exit"
    \/ pc = "raised" /\ trace[Len(trace)].msg # "OperationalError"

\* C6: create_table_from_json then insert_data_from_json, on N >= 1 records
\* that share the first record's keys and have no geometry field, executes N
\* inserts and leaves a committed table of this dataset's shape holding
\* exactly the N records, whatever the table was before.
C6_RoundTrip ==
    (calls = Main /\ SameKeysNoGeometry /\ Ended)
    => /\ pc = "exit"
       /\ Cardinality(Executed(2, "INSERT INTO")) = Len(json_data)
       /\ db.exists
       /\ Len(db.cols) = Len(json_data[1]) + 1
       /\ \A k \in 1..Len(json_data[1]) :
             db.cols[k + 1] = [name |-> Fold(json_data[1][k][1]),
                               type |-> IF json_data[1][k][2].kind = "int"
                                        THEN "INTEGER" ELSE "TEXT"]
       /\ Len(db.rows) = Len(json_data)
       /\ \A r \in 1..Len(json_data) : \A k \in 1..Len(json_data[1]) :
             \E p \in 1..Len(json_data[r]) :
                /\ json_data[r][p][1] = json_data[1][k][1]
                /\ db.rows[r][k] = json_data[r][p][2]

\* C7: the text of the executed insert statement is the same for every
\* record and for every dataset whose first record has the same keys: no
\* value of a record is in it, and the values are bound as parameters.
C7_StatementText ==
    \A i \in AllExecuted("INSERT INTO") :
        LET first == json_data[1]
            record == json_data[Ordinal(i)]
        IN /\ \A vs \in [1..Len(first) -> Values] :
                 trace[i].sql = InsertSql(table_name,
                                          [k \in 1..Len(first) |-> <<first[k][1], vs[k]>>])
           /\ \A j \in AllExecuted("INSERT INTO") : trace[j].sql = trace[i].sql
           /\ \A k \in 1..Len(trace[i].sql.values) :
                 /\ trace[i].sql.values[k] \in {PlainPlaceholder, GeomPlaceholder}
                 /\ trace[i].sql.values[k] \notin {v.v : v \in Values}
           /\ trace[i].params = [k \in 1..Len(first) |-> Lookup(record, first[k][1])]

\* Two records with different values under the same key have been inserted.
C7_Witness ==
    \E i, j \in AllExecuted("INSERT INTO") :
        /\ Len(trace[i].params) >= 1
        /\ trace[i].params # trace[j].params

C9_SpatialIndex ==
    /\ \A n \in DOMAIN calls :
          LET index == Executed(n, "CREATE INDEX IF NOT EXISTS")
              first == json_data[1]
              aliases == {k \in 1..Len(first) : first[k][1] \in AliasHeaders}
          IN /\ Cardinality(index) <= 1
             /\ \A i \in index :
                   /\ aliases # {}
                   /\ trace[i].sql.columns =
                         << first[CHOOSE k \in aliases : \A j \in aliases : k <= j][1] >>
             /\ \A p \in Events(n, "print") :
                   calls[n] = "create_table_from_json"
                   => /\ index # {} <=> aliases # {}
                      /\ index # {}
                            <=> trace[p].msg = "created successfully with spatial support"
                      /\ index = {}
                            <=> trace[p].msg = "created successfully without spatial support"
    /\ \A i \in AllExecuted("INSERT INTO") :
          \A k \in 1..Len(trace[i].sql.columns) :
             trace[i].sql.values[k] =
                IF trace[i].sql.columns[k] \in AliasHeaders
                THEN GeomPlaceholder ELSE PlainPlaceholder

\* The first record has two alias keys: the index is on the first of them
\* and a record has been inserted with both converted.
C9_Witness ==
    /\ Len(json_data) >= 1
    /\ Len(json_data[1]) = 2
    /\ json_data[1][1][1] = wkt
    /\ json_data[1][2][1] = Geom
    /\ \E i \in Executed(1, "CREATE INDEX IF NOT EXISTS") : trace[i].sql.columns = <<wkt>>
    /\ \E i \in Executed(2, "INSERT INTO") :
          trace[i].sql.values = <<GeomPlaceholder, GeomPlaceholder>>
    /\ pc = "exit"

\* C10: insert_data_from_json commits at most once, after an insert for
\* every record; when an insert fails, no later record is inserted, nothing
\* is committed or reported, and the committed table is the one the
\* operation found.
C10_AllOrNothing ==
    \A n \in DOMAIN calls :
        calls[n] = "insert_data_from_json"
        => LET inserts == Executed(n, "INSERT INTO")
               commits == Events(n, "commit")
           IN /\ Cardinality(commits) <= 1
              /\ \A c \in commits :
                    /\ Cardinality({i \in inserts : i < c}) = Len(json_data)
                    /\ \A i \in inserts : i < c
              /\ \A p \in Events(n, "print") : \E c \in commits : c < p
              /\ \A i \in inserts : trace[i].params = DataTuple(json_data[Ordinal(i)],
                                                                 trace[i].sql.columns)
              /\ (n = call /\ pc = "raised")
                 => /\ commits = {}
                    /\ Events(n, "print") = {}
                    /\ Cardinality(inserts) <= entry_index
                    /\ trace[Len(trace)].ev = "raise"
                    /\ Connected => db = db_at_connect

\* The insert for the second record has failed after the first was taken.
C10_Witness ==
    /\ running = "insert_data_from_json"
    /\ pc = "raised"
    /\ entry_index = 2
    /\ Len(tx.rows) = Len(db.rows) + 1
    /\ Cardinality(Executed(call, "INSERT INTO")) = 2

====
